---- MODULE Spec2Model ----
(***************************************************************************)
(* Model of src/src/proposal.rs: the Proposal of the DAO contract, its     *)
(* creation from a NewProposal (into_proposal), vote and execute.          *)
(*                                                                         *)
(* The machine integers of the source are kept as bounded naturals with    *)
(* their own maxima: MaxU16 <= MaxU32 <= MaxU64 stand for u16::MAX,        *)
(* u32::MAX and u64::MAX, scaled down so that the model reaches them.  The *)
(* plain `+` and `+=` of the source overflow: a build with overflow checks *)
(* panics there, a build without them wraps modulo the width.              *)
(* overflow_checks is the build's choice, fixed in Init.                   *)
(***************************************************************************)
EXTENDS Integers, FiniteSets, Sequences, TLC

\* ------------------------------------------------------------------ bounds
\* The largest value of an unsigned 64-bit field (u64::MAX, scaled).
MaxU64 == 3
\* The largest value of an unsigned 32-bit field (u32::MAX, scaled).
MaxU32 == 3
\* The largest value of an unsigned 16-bit field (u16::MAX, scaled).
MaxU16 == 3
\* The largest voting power a Voter may hold (the 10000 of Voter.power, scaled).
MaxPower == 2
\* The largest value of an unsigned 128-bit amount (u128::MAX, scaled).
MaxU128 == 15

\* ------------------------------------------------------------- constants
FROM_NANO == 1000000000

\* ------------------------------------------------------------------ types
\* AccountId values the callers use (voters, proposers, destinations).
Accounts == {"alice", "bob"}

\* env::current_account_id(): the account of the contract itself.
current_account_id == "dao"

U64 == 0 .. MaxU64
U32 == 0 .. MaxU32
U16 == 0 .. MaxU16

\* env::block_timestamp(): nanoseconds, held as whole seconds and the
\* nanoseconds past them (timestamp = sec * FROM_NANO + nsec, nsec < FROM_NANO).
\* The blocks sampled: a whole second, or the last nanosecond of a second.
Timestamps ==
  {[sec |-> s, nsec |-> IF s % 2 = 0 THEN 0 ELSE FROM_NANO - 1] : s \in U64}

\* env::block_timestamp() / FROM_NANO
Seconds(ts) == ts.sec + (ts.nsec \div FROM_NANO)

\* The range check of a voting power, made where the contract takes its voters
\* (outside proposal.rs): "voting power, must be in [1...10000]".
PowerInRange(p) == 1 <= p /\ p <= MaxPower

\* struct Voter { account, power: u16 }: the Voters that vote is called with.
Voters == {v \in [account : Accounts, power : U16] : PowerInRange(v.power)}

\* enum Action (the JSON form): dest is a ValidAccountId, amount a U128.
ValidAccountId(a) == [valid |-> a]
U128(n) == [u128 |-> n]
Action == {[kind |-> "Transfer", dest |-> ValidAccountId("bob"), amount |-> U128(1)],
           [kind |-> "Delete", dest |-> ValidAccountId("alice")]}

\* AccountId strings, and those of them with the syntax of an account id.
AccountIds == Accounts \cup {current_account_id, "carol.near", "", "Not An Id"}
is_valid_account_id(a) == a \in Accounts \cup {current_account_id, "carol.near"}

\* Every Action of the JSON form: a ValidAccountId holds a valid id only.
AnyAction ==
  {[kind |-> "Transfer", dest |-> ValidAccountId(d), amount |-> U128(n)] :
     d \in {x \in AccountIds : is_valid_account_id(x)}, n \in 0 .. MaxU128}
  \cup {[kind |-> "Delete", dest |-> ValidAccountId(d)] :
          d \in {x \in AccountIds : is_valid_account_id(x)}}

\* (mutation of to_aint: the amount is kept in 64 bits)
to_aint_u64(a) ==
  IF a.kind = "Transfer"
  THEN [kind |-> "Transfer", dest |-> a.dest.valid,
        amount |-> a.amount.u128 % (MaxU64 + 1)]
  ELSE [kind |-> "Delete", dest |-> a.dest.valid]

\* Action::to_aint: the ActionInt of an Action (dest: AccountId, amount: Balance).
to_aint(a) ==
  IF a.kind = "Transfer"
  THEN [kind |-> "Transfer", dest |-> a.dest.valid, amount |-> a.amount.u128]
  ELSE [kind |-> "Delete", dest |-> a.dest.valid]

\* dest.try_into().unwrap(): the ValidAccountId of an AccountId, or a panic.
try_into(dest) ==
  IF is_valid_account_id(dest) THEN [ok |-> TRUE, val |-> ValidAccountId(dest)]
  ELSE [ok |-> FALSE, val |-> ValidAccountId("")]

\* impl Into<Action> for ActionInt: [err, action]; err = "" on return.
into(aint) ==
  LET dest == try_into(aint.dest)
  IN IF ~dest.ok THEN [err |-> "called Result::unwrap() on an Err value"]
     ELSE IF aint.kind = "Transfer"
     THEN [err |-> "", action |-> [kind |-> "Transfer", dest |-> dest.val,
                                   amount |-> U128(aint.amount)]]
     ELSE [err |-> "", action |-> [kind |-> "Delete", dest |-> dest.val]]

\* struct NewProposal (description is opaque text).
NewProposal == [action : Action, description : {"d"},
                voting_start : U64, voting_duration : U32, execute_before : U64]

\* The value of `proposal` before a Proposal is created.
NoProposal == [none |-> TRUE]

\* ------------------------------------------------------------ arithmetic
\* a + b on integers of maximum max: the sum when it fits; otherwise a panic
\* (overflow checks on) or the sum modulo the width (overflow checks off).
Add(a, b, max, checks) ==
  IF a + b <= max THEN [ok |-> TRUE, val |-> a + b]
  ELSE IF checks THEN [ok |-> FALSE, val |-> 0]
  ELSE [ok |-> TRUE, val |-> (a + b) % (max + 1)]

OverflowPanic == "attempt to add with overflow"

VARIABLES
  overflow_checks,  \* the build: TRUE when integer overflow panics
  block_timestamp,  \* env::block_timestamp() of the block of the last call
  proposal,         \* the Proposal, or NoProposal
  result,           \* the last call: its operation, inputs and outcome
  promises,         \* the Promises returned by execute, in order
  accepted,         \* history: per account, the vote calls that returned
  sum_for,          \* history: the sum of power over the accepted yes votes
  sum_against       \* history: the sum of power over the accepted no votes

vars == <<overflow_checks, block_timestamp, proposal, result, promises,
          accepted, sum_for, sum_against>>

\* ------------------------------------------------------------ into_proposal
\* NewProposal::into_proposal: [err, proposal]; err = "" on success.
into_proposal(np, min_duration, max_duration, t, predecessor, checks) ==
  LET voting_start == np.voting_start
      execute_before == np.execute_before
      sum == Add(voting_start, np.voting_duration, MaxU64, checks)
      voting_end == sum.val
  IN IF ~(voting_start > t)
     THEN [err |-> "voting_start must be after current block timestmap",
           proposal |-> NoProposal]
     ELSE IF ~(min_duration <= np.voting_duration /\ np.voting_duration <= max_duration)
     THEN [err |-> "voting duration must be between", proposal |-> NoProposal]
     ELSE IF ~sum.ok
     THEN [err |-> OverflowPanic, proposal |-> NoProposal]
     ELSE IF ~(execute_before > voting_end)
     THEN [err |-> "execute_before must be after voting end", proposal |-> NoProposal]
     ELSE [err |-> "",
           proposal |-> [proposer |-> predecessor,
                         description |-> np.description,
                         action |-> to_aint(np.action),
                         voters |-> {},
                         voting_start |-> voting_start,
                         voting_end |-> voting_end,
                         votes_for |-> 0,
                         votes_against |-> 0,
                         execute_before |-> execute_before,
                         executed |-> FALSE]]

\* ---------------------------------------------------------------- vote
\* (mutation of VotingActive: the end of the voting is not looked at)
VotingActive_no_end(self, t) == self.voting_start <= t

\* The first assert of vote.
VotingActive(self, t) == self.voting_start <= t /\ self.voting_end >= t

\* self.voters.insert(account): [inserted, voters].
Insert(voters, account) ==
  [inserted |-> account \notin voters, voters |-> voters \cup {account}]

\* The tally a vote adds to.
Tally(vote_yes) == IF vote_yes THEN "votes_for" ELSE "votes_against"

\* Proposal::vote: [err, self]; err = "" on return, the panic message otherwise;
\* self is the Proposal as the call leaves it.
vote(self, voter, vote_yes, t, checks) ==
  IF ~VotingActive(self, t)
  THEN [err |-> "voting is not active", self |-> self]
  ELSE LET ins == Insert(self.voters, voter.account)
           s1 == [self EXCEPT !.voters = ins.voters]
           p == voter.power
           sum == Add(s1[Tally(vote_yes)], p, MaxU32, checks)
       IN IF ~ins.inserted
          THEN [err |-> "you already voted", self |-> s1]
          ELSE IF ~sum.ok
          THEN [err |-> OverflowPanic, self |-> s1]
          ELSE [err |-> "", self |-> [s1 EXCEPT ![Tally(vote_yes)] = sum.val]]

\* -------------------------------------------------------------- execute
\* (mutation of InExecutionWindow: the last second of the voting is included)
InExecutionWindow_overlap(self, t) == self.voting_end <= t /\ t <= self.execute_before

\* The asserts of execute, in the order of the source.
InExecutionWindow(self, t) == self.voting_end < t /\ t <= self.execute_before

EnoughSupport(self, min_support) == self.votes_for >= min_support

\* (mutation of Passed: a tie passes)
Passed_tie(self) == self.votes_for >= self.votes_against

Passed(self) == self.votes_for > self.votes_against

\* (mutation of NotExecuted: the flag is not looked at)
NotExecuted_unchecked(self) == TRUE

NotExecuted(self) == ~self.executed

\* (mutation of MarkExecuted: the voter set is cleared with it)
MarkExecuted_clears(self) == [self EXCEPT !.executed = TRUE, !.voters = {}]

\* self.executed = true
MarkExecuted(self) == [self EXCEPT !.executed = TRUE]

\* (mutation of Dispatch: the transfer acts on the contract's own account)
Dispatch_to_contract(action) ==
  IF action.kind = "Transfer"
  THEN [account |-> current_account_id, call |-> "transfer", amount |-> action.amount]
  ELSE [account |-> current_account_id, call |-> "delete_account",
        beneficiary |-> action.dest]

\* (mutation of Dispatch: delete_account acts on dest)
Dispatch_delete_dest(action) ==
  IF action.kind = "Transfer"
  THEN [account |-> action.dest, call |-> "transfer", amount |-> action.amount]
  ELSE [account |-> action.dest, call |-> "delete_account",
        beneficiary |-> current_account_id]

\* The Promise execute returns: Promise::new(account) with the one action added
\* to it.  Every action of a Promise acts on the account the Promise was made
\* for: transfer(amount) pays it, delete_account(beneficiary) removes it and
\* hands what it holds to the beneficiary.
Dispatch(action) ==
  IF action.kind = "Transfer"
  THEN [account |-> action.dest, call |-> "transfer", amount |-> action.amount]
  ELSE [account |-> current_account_id, call |-> "delete_account",
        beneficiary |-> action.dest]

\* (mutation of execute: the executed flag is asserted first)
execute_flag_first(self, min_support, t) ==
  IF ~NotExecuted(self)
  THEN [err |-> "proposal already executed", self |-> self]
  ELSE IF ~InExecutionWindow(self, t)
  THEN [err |-> "proposal can be executed only between", self |-> self,
        from |-> self.voting_end + 1, to |-> self.execute_before]
  ELSE IF ~EnoughSupport(self, min_support)
  THEN [err |-> "proposal didn't get enough support", self |-> self,
        got |-> self.votes_for, required |-> min_support]
  ELSE IF ~Passed(self)
  THEN [err |-> "proposal didn't pass", self |-> self,
        votes_for |-> self.votes_for, votes_against |-> self.votes_against]
  ELSE [err |-> "", self |-> MarkExecuted(self),
        promise |-> Dispatch(self.action)]

\* (mutation of execute: the majority is asserted before the support)
execute_majority_first(self, min_support, t) ==
  IF ~InExecutionWindow(self, t)
  THEN [err |-> "proposal can be executed only between", self |-> self,
        from |-> self.voting_end + 1, to |-> self.execute_before]
  ELSE IF ~Passed(self)
  THEN [err |-> "proposal didn't pass", self |-> self,
        votes_for |-> self.votes_for, votes_against |-> self.votes_against]
  ELSE IF ~EnoughSupport(self, min_support)
  THEN [err |-> "proposal didn't get enough support", self |-> self,
        got |-> self.votes_for, required |-> min_support]
  ELSE IF ~NotExecuted(self)
  THEN [err |-> "proposal already executed", self |-> self]
  ELSE [err |-> "", self |-> MarkExecuted(self),
        promise |-> Dispatch(self.action)]

\* Proposal::execute: [err, self, promise]; err = "" on return.
execute(self, min_support, t) ==
  IF ~InExecutionWindow(self, t)
  THEN [err |-> "proposal can be executed only between", self |-> self,
        from |-> self.voting_end + 1, to |-> self.execute_before]
  ELSE IF ~EnoughSupport(self, min_support)
  THEN [err |-> "proposal didn't get enough support", self |-> self,
        got |-> self.votes_for, required |-> min_support]
  ELSE IF ~Passed(self)
  THEN [err |-> "proposal didn't pass", self |-> self,
        votes_for |-> self.votes_for, votes_against |-> self.votes_against]
  ELSE IF ~NotExecuted(self)
  THEN [err |-> "proposal already executed", self |-> self]
  ELSE [err |-> "", self |-> MarkExecuted(self),
        promise |-> Dispatch(self.action)]

\* ---------------------------------------------------------------- actions
Init ==
  /\ overflow_checks \in BOOLEAN
  /\ block_timestamp = [sec |-> 0, nsec |-> 0]
  /\ proposal = NoProposal
  /\ result = [op |-> "none"]
  /\ promises = <<>>
  /\ accepted = [a \in Accounts |-> 0]
  /\ sum_for = 0
  /\ sum_against = 0

\* Every call runs in a block with its own timestamp, which it reads once.
\* The call of into_proposal by `predecessor` is the first call of a behaviour;
\* the Proposal is kept on success, and a failure produces none.
Create ==
  /\ result.op = "none"
  /\ \E ts \in Timestamps, np \in NewProposal, min_duration \in U32,
        max_duration \in U32, predecessor \in Accounts :
       LET r == into_proposal(np, min_duration, max_duration,
                              Seconds(ts), predecessor, overflow_checks)
       IN /\ block_timestamp' = ts
          /\ proposal' = r.proposal
          /\ result' = [op |-> "create", err |-> r.err, np |-> np,
                        min_duration |-> min_duration, max_duration |-> max_duration,
                        predecessor |-> predecessor]
  /\ UNCHANGED <<overflow_checks, promises, accepted, sum_for, sum_against>>

\* A call of vote on the Proposal.
Vote ==
  /\ proposal # NoProposal
  /\ \E ts \in Timestamps, voter \in Voters, vote_yes \in BOOLEAN :
       LET r == vote(proposal, voter, vote_yes, Seconds(ts), overflow_checks)
           ok == r.err = ""
       IN /\ block_timestamp' = ts
          /\ proposal' = r.self
          /\ result' = [op |-> "vote", err |-> r.err, account |-> voter.account]
          /\ accepted' = IF ok THEN [accepted EXCEPT ![voter.account] = @ + 1]
                         ELSE accepted
          /\ sum_for' = IF ok /\ vote_yes THEN sum_for + voter.power ELSE sum_for
          /\ sum_against' = IF ok /\ ~vote_yes THEN sum_against + voter.power
                            ELSE sum_against
  /\ UNCHANGED <<overflow_checks, promises>>

\* A call of execute on the Proposal.
Execute ==
  /\ proposal # NoProposal
  /\ \E ts \in Timestamps, min_support \in U32 :
       LET r == execute(proposal, min_support, Seconds(ts))
       IN /\ block_timestamp' = ts
          /\ proposal' = r.self
          /\ result' = [op |-> "execute", min_support |-> min_support,
                        out |-> [x \in DOMAIN r \ {"self", "promise"} |-> r[x]]]
          /\ promises' = IF r.err = "" THEN Append(promises, r.promise) ELSE promises
  /\ UNCHANGED <<overflow_checks, accepted, sum_for, sum_against>>

\* (mutation of Effect: a failed effect puts the executed flag back)
Effect_rollback ==
  /\ promises # <<>>
  /\ \E ok \in BOOLEAN :
       /\ result' = [op |-> "effect", ok |-> ok]
       /\ proposal' = IF ok THEN proposal ELSE [proposal EXCEPT !.executed = FALSE]
  /\ UNCHANGED <<overflow_checks, block_timestamp, promises, accepted,
                 sum_for, sum_against>>

\* The Promise that execute returned is carried out later, outside the Proposal,
\* and succeeds or fails.  execute attaches no callback to it, so no code of
\* the Proposal runs then.
Effect ==
  /\ promises # <<>>
  /\ \E ok \in BOOLEAN : result' = [op |-> "effect", ok |-> ok]
  /\ UNCHANGED <<overflow_checks, block_timestamp, proposal, promises, accepted,
                 sum_for, sum_against>>

Next == Create \/ Vote \/ Execute \/ Effect

Spec == Init /\ [][Next]_vars

\* Block timestamps never go back from one block to the next.
MonotoneClock == block_timestamp'.sec >= block_timestamp.sec

NextMono ==
  \/ Create /\ MonotoneClock
  \/ Vote /\ MonotoneClock
  \/ Execute /\ MonotoneClock
  \/ Effect

\* The calls on one Proposal under a non-decreasing clock.
SpecMono == Init /\ [][NextMono]_vars

\* An Action is taken to its ActionInt and back.
Convert ==
  /\ result.op = "none"
  /\ \E a \in AnyAction :
       result' = [op |-> "convert", action |-> a, aint |-> to_aint(a),
                  back |-> into(to_aint(a))]
  /\ UNCHANGED <<overflow_checks, block_timestamp, proposal, promises, accepted,
                 sum_for, sum_against>>

\* The conversions of Action, applied to every Action.
SpecConvert == Init /\ [][Convert]_vars

\* ------------------------------------------------------------------ claims
\* Every step of Spec that changes vars is one call, and result' names it.
Created == proposal # NoProposal

\* The time in seconds of the block of the last call.
Now == block_timestamp.sec

ExecErr == result.out.err

\* C1: over any calls at any times and with any min_support, execute returns a
\* Promise at most once; the executed flag is set exactly when one was returned.
C1_ExecuteAtMostOnce ==
  /\ Len(promises) <= 1
  /\ Created => (proposal.executed <=> Len(promises) = 1)

\* An execute was refused after a Promise had been returned.
C1_Witness ==
  /\ Len(promises) = 1
  /\ result.op = "execute"
  /\ ExecErr # ""

\* C2 as stated: once executed, every execute at any later time and with any
\* min_support fails with "already executed".
C2_AlwaysAlreadyExecuted ==
  [][(/\ Created /\ proposal.executed
      /\ result'.op = "execute"
      /\ block_timestamp'.sec >= block_timestamp.sec)
       => result'.out.err = "proposal already executed"]_vars

\* C2 as amended: once executed, every later execute fails, leaves the Proposal
\* as it is and returns no Promise; it reports "already executed" exactly when
\* the call is inside the execution window with votes_for >= min_support and
\* votes_for > votes_against, and otherwise one of the three earlier conditions.
C2_LaterExecuteFails ==
  [][(Created /\ proposal.executed /\ result'.op = "execute")
       => /\ result'.out.err \in {"proposal can be executed only between",
                                  "proposal didn't get enough support",
                                  "proposal didn't pass",
                                  "proposal already executed"}
          /\ proposal' = proposal
          /\ promises' = promises
          /\ result'.out.err = "proposal already executed"
               <=> /\ proposal.voting_end < block_timestamp'.sec
                   /\ block_timestamp'.sec <= proposal.execute_before
                   /\ proposal.votes_for >= result'.min_support
                   /\ proposal.votes_for > proposal.votes_against]_vars

\* A later execute inside the window was refused as already executed.
C2_Witness ==
  /\ Created /\ proposal.executed
  /\ result.op = "execute"
  /\ ExecErr = "proposal already executed"

\* The number of vote calls that returned, over all accounts.
RECURSIVE SumOver(_, _)
SumOver(f, S) ==
  IF S = {} THEN 0 ELSE LET a == CHOOSE x \in S : TRUE IN f[a] + SumOver(f, S \ {a})

AcceptedVotes == SumOver(accepted, Accounts)

\* C3 as stated: no account has more than one accepted vote, the voter set has
\* as many members as there are accepted votes, and a vote by an account that is
\* in the voter set fails (inside the voting window as "you already voted").
C3_SingleVote ==
  [][/\ \A a \in Accounts : accepted'[a] <= 1
     /\ proposal' # NoProposal => Cardinality(proposal'.voters) = AcceptedVotes'
     /\ (result'.op = "vote" /\ result'.account \in proposal.voters)
          => /\ result'.err # ""
             /\ (/\ proposal.voting_start <= block_timestamp'.sec
                 /\ block_timestamp'.sec <= proposal.voting_end)
                  => result'.err = "you already voted"]_vars

\* C4 as stated: the tallies are the sums of power over the accepted votes by
\* choice, within the unsigned 32-bit range, and no step lowers either.
C4_TallyIsSum ==
  [][proposal' # NoProposal
      => /\ proposal'.votes_for = sum_for'
         /\ proposal'.votes_against = sum_against'
         /\ proposal'.votes_for \in U32 /\ proposal'.votes_against \in U32
         /\ Created => /\ proposal'.votes_for >= proposal.votes_for
                       /\ proposal'.votes_against >= proposal.votes_against]_vars

\* C5 as stated: a vote by an account that is not in the voter set is accepted
\* exactly when voting_start <= t <= voting_end, and a vote at any other time
\* fails with "voting is not active".
C5_VoteWindow ==
  [][result'.op = "vote"
      => LET t == block_timestamp'.sec
             active == proposal.voting_start <= t /\ t <= proposal.voting_end
         IN /\ result'.account \notin proposal.voters => (result'.err = "" <=> active)
            /\ ~active => result'.err = "voting is not active"]_vars

\* C6: execute(min_support) at time t returns a Promise (and sets executed)
\* exactly when voting_end < t <= execute_before, votes_for >= min_support,
\* votes_for > votes_against and executed is false; otherwise it fails and
\* returns none.
C6_ExecuteIff ==
  [][result'.op = "execute"
      => LET t == block_timestamp'.sec
             may == /\ proposal.voting_end < t /\ t <= proposal.execute_before
                    /\ proposal.votes_for >= result'.min_support
                    /\ proposal.votes_for > proposal.votes_against
                    /\ ~proposal.executed
         IN /\ result'.out.err = "" <=> may
            /\ may => /\ proposal'.executed
                      /\ Len(promises') = Len(promises) + 1
            /\ ~may => promises' = promises]_vars

\* An execute returned a Promise with the support exactly at min_support.
C6_Witness ==
  /\ result.op = "execute" /\ ExecErr = ""
  /\ proposal.votes_for = result.min_support
  /\ result.min_support > 0
  /\ proposal.votes_against > 0

\* C7: a failed execute reports the first violated condition in the order
\* window, support, majority, executed; the support failure carries the
\* achieved votes_for and the required min_support.
C7_FirstViolated ==
  [][result'.op = "execute"
      => LET t == block_timestamp'.sec
             out == result'.out
         IN IF ~(proposal.voting_end < t /\ t <= proposal.execute_before)
            THEN out.err = "proposal can be executed only between"
            ELSE IF proposal.votes_for < result'.min_support
            THEN /\ out.err = "proposal didn't get enough support"
                 /\ out.got = proposal.votes_for
                 /\ out.required = result'.min_support
            ELSE IF proposal.votes_for <= proposal.votes_against
            THEN out.err = "proposal didn't pass"
            ELSE IF proposal.executed
            THEN out.err = "proposal already executed"
            ELSE out.err = ""]_vars

\* An execute was refused for its support although the majority was missing
\* and the Proposal was executed already.
C7_Witness ==
  /\ result.op = "execute"
  /\ ExecErr = "proposal didn't get enough support"
  /\ result.out.got < result.out.required
  /\ proposal.votes_for <= proposal.votes_against
  /\ proposal.executed

\* The mathematical sum voting_start + voting_duration of the creation input.
CreateEnd == result.np.voting_start + result.np.voting_duration

\* C8 as stated: creation at t0 succeeds exactly when voting_start > t0,
\* min_duration <= voting_duration <= max_duration and execute_before >
\* voting_start + voting_duration; the Proposal then ends voting at that sum,
\* with zero tallies, no voters, executed false and the caller as proposer.
C8_CreateIff ==
  result.op = "create"
    => LET np == result.np
           valid == /\ np.voting_start > Now
                    /\ result.min_duration <= np.voting_duration
                    /\ np.voting_duration <= result.max_duration
                    /\ np.execute_before > CreateEnd
       IN /\ result.err = "" <=> valid
          /\ result.err = "" <=> Created
          /\ Created => /\ proposal.voting_start = np.voting_start
                        /\ proposal.voting_end = CreateEnd
                        /\ proposal.execute_before = np.execute_before
                        /\ proposal.votes_for = 0 /\ proposal.votes_against = 0
                        /\ proposal.voters = {}
                        /\ proposal.executed = FALSE
                        /\ proposal.proposer = result.predecessor

\* C9 as stated: when voting_start + voting_duration is past the 64-bit range,
\* creation fails and produces no Proposal.
C9_NoWrappedEnd ==
  (result.op = "create" /\ CreateEnd > MaxU64) => (result.err # "" /\ ~Created)

\* C10 as stated: a failed vote and a failed execute leave the Proposal as it
\* was, and a failed creation leaves none.
C10_FailureChangesNothing ==
  [][/\ (result'.op = "vote" /\ result'.err # "") => proposal' = proposal
     /\ (result'.op = "execute" /\ result'.out.err # "")
          => (proposal' = proposal /\ promises' = promises)
     /\ (result'.op = "create" /\ result'.err # "") => proposal' = NoProposal]_vars

\* ------------------------------------------------- claims, second part
ExecOk == result.op = "execute" /\ result.out.err = ""

\* The voting is over and the majority is missing.
NotPassed == Created /\ Now > proposal.voting_end
             /\ proposal.votes_for <= proposal.votes_against

\* The voting is over and the support is below m.
Below(m) == Created /\ Now > proposal.voting_end /\ proposal.votes_for < m

\* C11 as stated (under a non-decreasing clock): after an execute inside the
\* execution window failed for its support or its majority, no later execute
\* succeeds; here, the very next call.
C11_PolicyViolationTerminal ==
  [][(/\ result.op = "execute"
      /\ ExecErr \in {"proposal didn't get enough support", "proposal didn't pass"})
       => ~ExecOk']_vars

\* C11 as amended (under a non-decreasing clock): after an execute inside the
\* window failed for its majority, no later execute succeeds; after one failed
\* for its support with min_support m, no later execute with min_support >= m
\* succeeds.  Both facts are kept by every step: the tallies are final once
\* the voting is over.
C11_TerminalForSameSupport ==
  [][/\ (result'.op = "execute" /\ result'.out.err = "proposal didn't pass")
          => NotPassed'
     /\ NotPassed => (NotPassed' /\ ~ExecOk')
     /\ \A m \in U32 :
          /\ (/\ result'.op = "execute"
              /\ result'.out.err = "proposal didn't get enough support"
              /\ result'.min_support = m) => Below(m)'
          /\ Below(m) => /\ Below(m)'
                         /\ ~(ExecOk' /\ result'.min_support >= m)]_vars

\* An execute inside the window failed for its support on a proposal that has
\* its majority: a smaller min_support is all a later call needs.
C11_Witness ==
  /\ result.op = "execute"
  /\ ExecErr = "proposal didn't get enough support"
  /\ Below(result.min_support)
  /\ proposal.votes_for > proposal.votes_against
  /\ Now <= proposal.execute_before
  /\ ~proposal.executed

\* The effect request carries the action a of the internal form:
\* for a Transfer, a transfer of the amount to dest; for a Delete, a
\* delete_account that names dest.
Carries(promise, a) ==
  IF a.kind = "Transfer"
  THEN promise.call = "transfer" /\ promise.account = a.dest
       /\ promise.amount = a.amount
  ELSE promise.call = "delete_account" /\ promise.beneficiary = a.dest

\* C12: the Proposal is created with the kind, destination and amount of the
\* action given to the creation; no vote, execute or effect changes them; and
\* the effect request of a successful execute carries exactly that action: for
\* a Transfer, a transfer of the same amount to the same destination.
C12_EffectIsCreatedAction ==
  [][/\ (result'.op = "create" /\ result'.err = "")
          => LET a == result'.np.action
                 b == proposal'.action
             IN /\ b.kind = a.kind
                /\ b.dest = a.dest.valid
                /\ a.kind = "Transfer" => b.amount = a.amount.u128
     /\ Created => proposal'.action = proposal.action
     /\ ExecOk'
          => /\ Created
             /\ promises' = Append(promises, promises'[Len(promises')])
             /\ Carries(promises'[Len(promises')], proposal.action)]_vars

\* A Transfer was dispatched by an execute that followed an accepted vote.
C12_Witness ==
  /\ ExecOk
  /\ proposal.action.kind = "Transfer"
  /\ promises = <<[account |-> "bob", call |-> "transfer", amount |-> 1]>>
  /\ AcceptedVotes > 0

C14_RoundTrip ==
  result.op = "convert"
    => /\ result.back.err = ""
       /\ result.back.action = result.action
       /\ result.back.action.kind = result.action.kind
       /\ result.back.action.dest = result.action.dest
       /\ result.action.kind = "Transfer"
            => result.back.action.amount = result.action.amount

\* A Transfer of the largest amount went through both conversions.
C14_Witness ==
  /\ result.op = "convert"
  /\ result.action.kind = "Transfer"
  /\ result.action.amount = U128(MaxU128)
  /\ result.aint.amount = MaxU128
  /\ result.back.err = ""

Immutable == {"proposer", "description", "action", "voting_start", "voting_end",
              "execute_before"}

\* C15: no vote or execute call changes proposer, description, action,
\* voting_start, voting_end or execute_before of a created Proposal; a
\* successful vote leaves executed unchanged; a successful execute leaves
\* votes_for, votes_against and the voter set unchanged.
C15_Frame ==
  [][Created =>
       /\ Created'
       /\ \A f \in Immutable : proposal'[f] = proposal[f]
       /\ (result'.op = "vote" /\ result'.err = "")
            => proposal'.executed = proposal.executed
       /\ ExecOk'
            => /\ proposal'.votes_for = proposal.votes_for
               /\ proposal'.votes_against = proposal.votes_against
               /\ proposal'.voters = proposal.voters]_vars

\* An execute succeeded on a Proposal with two voters and both tallies set.
C15_Witness ==
  /\ ExecOk
  /\ Cardinality(proposal.voters) = 2
  /\ proposal.votes_for > 0
  /\ proposal.votes_against > 0

\* C16: a Proposal is created with executed false; only a successful execute
\* sets it; once true it stays true and no execute succeeds again; the outcome
\* of the effect, failure included, changes nothing of the Proposal.
C16_ExecutedNeverReverts ==
  [][/\ (~Created /\ Created') => ~proposal'.executed
     /\ (Created /\ ~proposal.executed /\ proposal'.executed) => ExecOk'
     /\ (Created /\ proposal.executed) => (proposal'.executed /\ ~ExecOk')
     /\ result'.op = "effect" => proposal' = proposal]_vars

\* The effect of an executed Proposal failed, and the flag is set.
C16_Witness ==
  /\ result.op = "effect"
  /\ ~result.ok
  /\ proposal.executed
  /\ Len(promises) = 1

\* C17 as stated: every accepted vote adds a power of the range to exactly one
\* tally: votes_for or votes_against grows by at least 1 and at most the
\* largest power, and the other tally is unchanged.
C17_VoteAddsPower ==
  [][(result'.op = "vote" /\ result'.err = "")
       => LET df == proposal'.votes_for - proposal.votes_for
              da == proposal'.votes_against - proposal.votes_against
          IN \/ PowerInRange(df) /\ da = 0
             \/ PowerInRange(da) /\ df = 0]_vars

\* The phases of a Proposal, in their order, at the time of the last call.
Phase ==
  IF proposal.executed THEN 4
  ELSE IF Now > proposal.execute_before THEN 3
  ELSE IF Now > proposal.voting_end THEN 2
  ELSE IF Now >= proposal.voting_start THEN 1
  ELSE 0

\* C18: under a non-decreasing clock the Proposal never moves back through
\* PRE_VOTING, VOTING, EXECUTABLE, EXPIRED or EXECUTED; no vote or execute is
\* accepted before voting_start; at no time are both a vote and an execute
\* accepted; after the accepted execute no vote is accepted, so the tallies and
\* the voter set it saw are final; and a Proposal that is past execute_before
\* with executed false is never executed.
C18_ForwardOnly ==
  [][Created =>
       /\ Phase' >= Phase
       /\ ((result'.op = "vote" /\ result'.err = "") \/ ExecOk')
            => Now' >= proposal.voting_start
       /\ \A t \in U64 : ~(VotingActive(proposal, t) /\ InExecutionWindow(proposal, t))
       /\ ~((result'.op = "vote" /\ result'.err = "")
             /\ InExecutionWindow(proposal, Now'))
       /\ ~(ExecOk' /\ VotingActive(proposal, Now'))
       /\ proposal.executed
            => /\ ~(result'.op = "vote" /\ result'.err = "")
               /\ proposal'.votes_for = proposal.votes_for
               /\ proposal'.votes_against = proposal.votes_against
               /\ proposal'.voters = proposal.voters
       /\ (~proposal.executed /\ Now > proposal.execute_before)
            => ~proposal'.executed]_vars

\* A vote was refused after the execute, at a time past execute_before.
C18_Witness ==
  /\ result.op = "vote"
  /\ result.err = "voting is not active"
  /\ proposal.executed
  /\ Now > proposal.execute_before
  /\ AcceptedVotes > 0

\* C19 as stated: a Proposal created at t0 has t0 < voting_start, and in every
\* state voting_start <= voting_end < execute_before.
C19_WindowsOrdered ==
  Created =>
    /\ result.op = "create" => Now < proposal.voting_start
    /\ proposal.voting_start <= proposal.voting_end
    /\ proposal.voting_end < proposal.execute_before

\* C20: on a Proposal with votes_for = 0, or without an accepted yes vote, no
\* execute succeeds; inside the execution window with min_support = 0 it is
\* the majority check that refuses it.
C20_NoYesNoExecute ==
  [][(Created /\ (proposal.votes_for = 0 \/ sum_for = 0))
       => /\ ~ExecOk'
          /\ (/\ result'.op = "execute"
              /\ result'.min_support = 0
              /\ InExecutionWindow(proposal, Now'))
               => result'.out.err = "proposal didn't pass"]_vars

\* Without any vote, execute(0) inside the window was refused by the majority
\* check.
C20_Witness ==
  /\ result.op = "execute"
  /\ result.min_support = 0
  /\ ExecErr = "proposal didn't pass"
  /\ proposal.votes_for = 0
  /\ proposal.votes_against = 0
  /\ sum_for = 0
  /\ InExecutionWindow(proposal, Now)

====
